---------------------------- MODULE Spec2Model ----------------------------
(***************************************************************************)
(* A model of the Media Metadata Toolkit (src/Metadata Toolkit/            *)
(* media_metadata.py): the sanitizer, the extractor (local files and       *)
(* URLs), the remover (single file and directory) and the facade           *)
(* MediaMetadataToolkit.process, over an explicit model of the file system.*)
(*                                                                         *)
(* Three specifications share the variables:                               *)
(*   SpecSan  repeated passes of _clean_metadata_dict over a record;       *)
(*   Spec     calls of process / extract / remove_metadata on single files *)
(*            and URLs;                                                    *)
(*   SpecDir  calls of remove_metadata_from_directory on a directory tree. *)
(***************************************************************************)
EXTENDS Integers, Sequences, FiniteSets, TLC

VARIABLES
    fs,         \* the file system: a function from the existing paths to entries
    pre,        \* the file system as it was when the last call started
    call,       \* the last call: its operation and arguments
    out,        \* the last call's outcome: a returned value or a raised error
    log,        \* the log lines the last call emitted, in order
    ops,        \* the file-system accesses the last call made, in order
    file_info,  \* MediaMetadataExtractor._file_info (kept between calls)
    clock,      \* the wall clock read by datetime.now()
    san,        \* the sanitizer's input record, previous and current result
    cls,        \* a file name handed to the classification, and its kind
    ncalls      \* the number of calls made so far

vars == <<fs, pre, call, out, log, ops, file_info, clock, san, cls, ncalls>>

(***************************************************************************)
(* Bounds of the model                                                     *)
(***************************************************************************)
MaxFields == 2      \* fields of a record handed to the sanitizer
MaxBytesLen == 2    \* length of a byte string
MaxPasses == 3      \* sanitizer passes over one record
MaxCalls == 2       \* calls made in one behaviour
MaxDepth == 4       \* the longest path the file system accepts (in names)

(***************************************************************************)
(* Python values, tagged by type.  A text string is its sequence of code   *)
(* points, a byte string its sequence of bytes, a mapping its sequence of  *)
(* <<key, value>> pairs in insertion order.                                *)
(***************************************************************************)
NoneV == [t |-> "none", v |-> 0]
StrV(s) == [t |-> "str", v |-> s]
BytesV(b) == [t |-> "bytes", v |-> b]
ListV(l) == [t |-> "list", v |-> l]
DictV(d) == [t |-> "dict", v |-> d]
NumV(n) == [t |-> "num", v |-> n]
BoolV(b) == [t |-> "bool", v |-> b]

\* "N/A"
STR_NA == <<78, 47, 65>>
\* "Empty String"
STR_EMPTY == <<69, 109, 112, 116, 121, 32, 83, 116, 114, 105, 110, 103>>
\* "Binary Data"
STR_BINARY == <<66, 105, 110, 97, 114, 121, 32, 68, 97, 116, 97>>

(***************************************************************************)
(* bytes.decode("utf-8", errors="replace"): an ASCII byte is its code      *)
(* point, a two-byte sequence (lead 0xC2..0xDF, continuation 0x80..0xBF)   *)
(* is decoded, and every byte that starts no valid sequence becomes        *)
(* U+FFFD.  With errors="replace" the decoder never raises.                *)
(***************************************************************************)
RECURSIVE Utf8Decode(_)
Utf8Decode(b) ==
    IF b = <<>> THEN <<>>
    ELSE LET h == Head(b) IN
         IF h < 128 THEN <<h>> \o Utf8Decode(Tail(b))
         ELSE IF /\ h >= 194 /\ h <= 223
                 /\ Len(b) >= 2
                 /\ b[2] >= 128 /\ b[2] <= 191
              THEN <<(h - 192) * 64 + (b[2] - 128)>>
                       \o Utf8Decode(SubSeq(b, 3, Len(b)))
              ELSE <<65533>> \o Utf8Decode(Tail(b))

\* A sanitizer that forgets to tell the empty containers apart: every empty
\* string, list and mapping becomes "Empty String".
CleanValueAllEmptyAsString(value) ==
    IF value.t = "none" THEN StrV(STR_NA)
    ELSE IF value.t \in {"str", "list", "dict"} /\ value.v = <<>>
         THEN StrV(STR_EMPTY)
    ELSE IF value.t = "bytes" THEN StrV(Utf8Decode(value.v))
    ELSE value

\* A sanitizer that descends: the elements of a list and the values of a
\* mapping are sanitized as the top-level values are.
RECURSIVE CleanValueDeep(_)
CleanValueDeep(value) ==
    IF value.t = "none" THEN StrV(STR_NA)
    ELSE IF value.t = "str" /\ value.v = <<>> THEN StrV(STR_EMPTY)
    ELSE IF value.t = "bytes" THEN StrV(Utf8Decode(value.v))
    ELSE IF value.t = "list"
         THEN ListV([i \in 1..Len(value.v) |-> CleanValueDeep(value.v[i])])
    ELSE IF value.t = "dict"
         THEN DictV([i \in 1..Len(value.v) |->
                        <<value.v[i][1], CleanValueDeep(value.v[i][2])>>])
    ELSE value

\* One field of _clean_metadata_dict: the if/elif chain over the value.
CleanValue(value) ==
    IF value.t = "none" THEN StrV(STR_NA)
    ELSE IF value.t \in {"str", "list", "dict"} /\ value.v = <<>>
         THEN IF value.t = "str" THEN StrV(STR_EMPTY)
              ELSE IF value.t = "list" THEN ListV(<<>>)
              ELSE DictV(<<>>)
    ELSE IF value.t = "bytes" THEN StrV(Utf8Decode(value.v))
    ELSE value

\* _clean_metadata_dict: a new mapping with the same keys in the same order.
_clean_metadata_dict(metadata) ==
    [i \in 1..Len(metadata) |-> <<metadata[i][1], CleanValue(metadata[i][2])>>]

(***************************************************************************)
(* The records the sanitizer is run on                                     *)
(***************************************************************************)
ByteVals == {65, 169, 195, 255}
ByteStrings == UNION {[1..n -> ByteVals] : n \in 0..MaxBytesLen}

SanValues ==
    {NoneV, StrV(<<>>), StrV(<<120>>), StrV(STR_NA),
     ListV(<<>>), ListV(<<NoneV>>), ListV(<<BytesV(<<65>>)>>),
     DictV(<<>>), DictV(<< <<"k", NoneV>> >>), DictV(<< <<"k", BytesV(<<255>>)>> >>),
     NumV(0), NumV(7), BoolV(TRUE), BoolV(FALSE)}
        \cup {BytesV(b) : b \in ByteStrings}

\* The key of the i-th field.
SanKeys == <<"a", "b", "c", "d">>

\* Values of the fields after the first: one of each branch of the sanitizer.
SanRest ==
    {NoneV, StrV(<<>>), StrV(<<120>>), ListV(<<>>), ListV(<<NoneV>>),
     DictV(<<>>), DictV(<< <<"k", NoneV>> >>), NumV(7), BoolV(FALSE),
     BytesV(<<>>), BytesV(<<65>>), BytesV(<<255>>)}

\* Records of 1..MaxFields fields with distinct keys: the first field ranges
\* over every value, the others over SanRest.
SanRecords ==
    UNION {{[i \in 1..n |-> <<SanKeys[i], IF i = 1 THEN v ELSE rest[i]>>] :
                v \in SanValues, rest \in [2..n -> SanRest]} : n \in 1..MaxFields}

NoSan == [input |-> <<>>, prev |-> <<>>, cur |-> <<>>, passes |-> 0]
\* No file name classified yet.
NoCls == [form |-> "none", word |-> <<>>, upper |-> {}, kind |-> "none"]

(***************************************************************************)
(* Paths and the file system.  A name is a stem (a sequence of tokens, so  *)
(* that f"{stem}_temp{suffix}" is the stem with one more token) and an     *)
(* extension; a path is the sequence of names from the working directory.  *)
(***************************************************************************)
Nm(stem, ext) == [stem |-> stem, ext |-> ext]
\* An absent path argument (None or the empty string, both false in a test).
None == <<Nm(<<>>, "")>>

Parent(p) == SubSeq(p, 1, Len(p) - 1)
PathName(p) == p[Len(p)]
with_name(p, name) == Parent(p) \o <<name>>
\* Path.relative_to, for a path below base.
relative_to(p, base) == SubSeq(p, Len(base) + 1, Len(p))

\* str.lower() on the extensions of the model.
Lower(ext) ==
    CASE ext = ".JPG" -> ".jpg"
      [] ext = ".Png" -> ".png"
      [] ext = ".PDF" -> ".pdf"
      [] ext = ".Mp3" -> ".mp3"
      [] ext = ".XYZ" -> ".xyz"
      [] OTHER -> ext

\* File contents: a decodable image, or bytes no decoder identifies, a PDF
\* document, an audio/video stream, or what an interrupted write leaves.
Img(fmt, pix, mode, info, exif) ==
    [k |-> "img", fmt |-> fmt, pix |-> pix, mode |-> mode, info |-> info,
     exif |-> exif]
Blob(kind) ==
    [k |-> kind, fmt |-> "", pix |-> 0, mode |-> "", info |-> {}, exif |-> {}]
Junk == Blob("junk")
Partial == Blob("partial")
PdfDoc == Blob("pdf")
AvStream == Blob("av")

DirE == [type |-> "dir", data |-> Blob("dir"), r |-> TRUE, w |-> TRUE]
FileE(data, r, w) == [type |-> "file", data |-> data, r |-> r, w |-> w]

Exists(f, p) == p \in DOMAIN f
IsDir(f, p) == Exists(f, p) /\ f[p].type = "dir"
IsFile(f, p) == Exists(f, p) /\ f[p].type = "file"
Put(f, p, e) == [q \in DOMAIN f \cup {p} |-> IF q = p THEN e ELSE f[q]]
Del(f, p) == [q \in DOMAIN f \ {p} |-> f[q]]
\* os.rename on files: the destination is replaced in one step.
RenameFile(f, a, b) == Put(Del(f, a), b, f[a])
\* The entries of directory d.
Children(f, d) == {q \in DOMAIN f : Len(q) = Len(d) + 1 /\ Parent(q) = d}

(***************************************************************************)
(* Outcomes of a call, and what a call leaves: the file system, the        *)
(* outcome, the log lines and the file-system accesses.                    *)
(***************************************************************************)
Ret(v) == [st |-> "ret", val |-> v, err |-> "none"]
Raise(e) == [st |-> "raise", val |-> <<>>, err |-> e]
R(f, o, lg, op) == [fs |-> f, out |-> o, log |-> lg, ops |-> op]

(***************************************************************************)
(* MediaMetadataBase                                                       *)
(***************************************************************************)
SUPPORTED_EXTENSIONS ==
    [image |-> {".jpg", ".jpeg", ".png", ".gif", ".tiff", ".bmp", ".webp"},
     pdf   |-> {".pdf"},
     audio |-> {".mp3", ".wav", ".flac", ".aac", ".ogg"},
     video |-> {".mp4", ".mov", ".avi", ".mkv", ".webm"}]

_get_extension(file_path) == Lower(PathName(file_path).ext)

\* A check that forgets the media type: supported by any table.
IsSupportedByAnyTable(file_path, media_type) ==
    \E kind \in DOMAIN SUPPORTED_EXTENSIONS :
        _get_extension(file_path) \in SUPPORTED_EXTENSIONS[kind]

_is_supported(file_path, media_type) ==
    _get_extension(file_path) \in SUPPORTED_EXTENSIONS[media_type]

(***************************************************************************)
(* Classification of a file name given as text (its code points).          *)
(***************************************************************************)
\* str.rfind: the last position of ch in name, 0 when there is none.
rfind(name, ch) ==
    IF \E i \in 1..Len(name) : name[i] = ch
    THEN CHOOSE i \in 1..Len(name) :
            name[i] = ch /\ \A j \in (i + 1)..Len(name) : name[j] # ch
    ELSE 0
\* The last dot of the name at position i: Path.suffix is the text from it,
\* unless the dot is the first or the last character of the name.
SuffixFrom(name, i) ==
    IF 1 < i /\ i < Len(name) THEN SubSeq(name, i, Len(name)) ELSE <<>>
suffix(name) == SuffixFrom(name, rfind(name, 46))

\* A lowering that is forgotten.
NotLowered(text) == text
\* str.lower, for ASCII text.
str_lower(text) ==
    [i \in 1..Len(text) |->
        IF text[i] >= 65 /\ text[i] <= 90 THEN text[i] + 32 ELSE text[i]]

\* The code points of the entries of SUPPORTED_EXTENSIONS.
Chars(e) ==
    CASE e = ".jpg" -> <<46, 106, 112, 103>>
      [] e = ".jpeg" -> <<46, 106, 112, 101, 103>>
      [] e = ".png" -> <<46, 112, 110, 103>>
      [] e = ".gif" -> <<46, 103, 105, 102>>
      [] e = ".tiff" -> <<46, 116, 105, 102, 102>>
      [] e = ".bmp" -> <<46, 98, 109, 112>>
      [] e = ".webp" -> <<46, 119, 101, 98, 112>>
      [] e = ".pdf" -> <<46, 112, 100, 102>>
      [] e = ".mp3" -> <<46, 109, 112, 51>>
      [] e = ".wav" -> <<46, 119, 97, 118>>
      [] e = ".flac" -> <<46, 102, 108, 97, 99>>
      [] e = ".aac" -> <<46, 97, 97, 99>>
      [] e = ".ogg" -> <<46, 111, 103, 103>>
      [] e = ".mp4" -> <<46, 109, 112, 52>>
      [] e = ".mov" -> <<46, 109, 111, 118>>
      [] e = ".avi" -> <<46, 97, 118, 105>>
      [] e = ".mkv" -> <<46, 109, 107, 118>>
      [] e = ".webm" -> <<46, 119, 101, 98, 109>>
      [] OTHER -> <<>>

\* The dispatch of _extract_from_file on ext = self._get_extension(path).
KindOfExtension(ext) ==
    IF ext \in {Chars(e) : e \in SUPPORTED_EXTENSIONS.image} THEN "image"
    ELSE IF ext \in {Chars(e) : e \in SUPPORTED_EXTENSIONS.pdf} THEN "pdf"
    ELSE IF ext \in {Chars(e) : e \in SUPPORTED_EXTENSIONS.audio
                                        \cup SUPPORTED_EXTENSIONS.video}
    THEN "audio/video"
    ELSE "unsupported"
\* Path(file_path).suffix.lower(), then the dispatch.
MediaKind(name) == KindOfExtension(str_lower(suffix(name)))

\* _validate_file: the error it raises ("ok" when none) and its accesses.
_validate_file(f, file_path, check_read, check_write) ==
    IF ~Exists(f, file_path)
    THEN [err |-> "FileOperation", ops |-> <<"exists">>]
    ELSE IF check_read /\ ~f[file_path].r
    THEN [err |-> "FileOperation", ops |-> <<"exists", "access">>]
    ELSE IF check_write /\ ~f[file_path].w
    THEN [err |-> "FileOperation",
          ops |-> <<"exists">> \o (IF check_read THEN <<"access">> ELSE <<>>)
                      \o <<"access">>]
    ELSE [err |-> "ok",
          ops |-> <<"exists">> \o (IF check_read THEN <<"access">> ELSE <<>>)
                      \o (IF check_write THEN <<"access">> ELSE <<>>)]

(***************************************************************************)
(* Pillow, as the remover uses it.                                         *)
(***************************************************************************)
\* Image.convert("RGB"): a new image with the info channel copied.
Convert(img, mode) == [img EXCEPT !.mode = mode]

FormatOf(ext) ==
    CASE ext \in {".jpg", ".jpeg"} -> "JPEG"
      [] ext = ".png" -> "PNG"
      [] ext = ".gif" -> "GIF"
      [] ext = ".tiff" -> "TIFF"
      [] ext = ".bmp" -> "BMP"
      [] OTHER -> "WEBP"

\* The image a decoder reads back from what the encoder wrote with the given
\* exif payload (a set of tags; b'' is the empty set): an "exif" entry of the
\* info channel is present exactly when the payload is not empty.
Encoded(img, fmt, exif) ==
    [img EXCEPT !.fmt = fmt,
                !.exif = exif,
                !.info = IF exif = {} THEN @ \ {"exif"} ELSE @ \cup {"exif"}]

\* Image.save(output_path, ...): the format is taken from the extension
\* (ValueError when unknown) before the file is opened; the file is opened
\* for writing, which truncates it; a failing encoder leaves the truncated
\* file, or nothing when the call created the file and Pillow removes it.
Save(f, img, output_path, exif, fault) ==
    IF Lower(PathName(output_path).ext) \notin SUPPORTED_EXTENSIONS.image
    THEN [fs |-> f, err |-> "ValueError", ops |-> <<>>]
    ELSE IF \/ ~IsDir(f, Parent(output_path))
            \/ IsDir(f, output_path)
            \/ (Exists(f, output_path) /\ ~f[output_path].w)
            \/ Len(output_path) > MaxDepth + 1
    THEN [fs |-> f, err |-> "OSError", ops |-> <<"open_w">>]
    ELSE IF fault = "save_partial"
    THEN [fs |-> Put(f, output_path, FileE(Partial, TRUE, TRUE)),
          err |-> "OSError", ops |-> <<"open_w", "write">>]
    ELSE IF fault = "save_clean"
    THEN [fs |-> IF Exists(f, output_path)
                 THEN Put(f, output_path, FileE(Partial, TRUE, TRUE))
                 ELSE f,
          err |-> "OSError", ops |-> <<"open_w", "write", "unlink">>]
    ELSE [fs |-> Put(f, output_path,
                     FileE(Encoded(img, FormatOf(Lower(PathName(output_path).ext)),
                                   exif), TRUE, TRUE)),
          err |-> "ok", ops |-> <<"open_w", "write">>]

(***************************************************************************)
(* MediaMetadataRemover                                                    *)
(***************************************************************************)
\* The keyword arguments the call of img.save names itself.
SaveKeywords == {"quality", "exif"}

\* with Image.open(input_path) as img, converted to RGB when the mode is
\* neither RGB nor RGBA.
OpenedImage(f, input_path) ==
    IF f[input_path].data.mode \notin {"RGB", "RGBA"}
    THEN Convert(f[input_path].data, "RGB")
    ELSE f[input_path].data

\* _remove_image_metadata after img.save: s is what the save left.
AfterSave(s, output_path) ==
    IF s.err # "ok"
    THEN \* except Exception
         R(s.fs, Raise("MetadataRemoval"), <<>>, <<"open", "read">> \o s.ops)
    ELSE R(s.fs, Ret(output_path), <<"info: Metadata removed">>,
           <<"open", "read">> \o s.ops)

_remove_image_metadata(f, input_path, output_path, fault) ==
    IF ~IsFile(f, input_path) \/ ~f[input_path].r \/ fault = "open"
    THEN \* Image.open raises OSError: except Exception
         R(f, Raise("MetadataRemoval"), <<>>, <<"open">>)
    ELSE IF f[input_path].data.k # "img"
    THEN \* UnidentifiedImageError
         R(f, Raise("UnsupportedMedia"), <<>>, <<"open", "read">>)
    ELSE IF OpenedImage(f, input_path).info \cap SaveKeywords # {}
    THEN \* **img.info repeats a keyword of the call: TypeError, except Exception
         R(f, Raise("MetadataRemoval"), <<>>, <<"open", "read">>)
    ELSE AfterSave(Save(f, OpenedImage(f, input_path), output_path, {}, fault),
                   output_path)

TempPath(file_path) ==
    with_name(file_path, Nm(Append(PathName(file_path).stem, "_temp"),
                            PathName(file_path).ext))
CleanPath(file_path) ==
    with_name(file_path, Nm(Append(PathName(file_path).stem, "_clean"),
                            PathName(file_path).ext))

\* An in_place branch that replaces the original whatever the write left:
\* the original is unlinked even though the stripped copy was not written.
ReplaceOriginalUnconditional(w, file_path, output_path, fault) ==
    IF w.out.st = "raise"
    THEN R(Del(w.fs, file_path), w.out, w.log, w.ops \o <<"unlink">>)
    ELSE IF fault = "unlink"
    THEN R(w.fs, Raise("MetadataRemoval"), w.log, w.ops \o <<"unlink">>)
    ELSE IF fault = "rename"
    THEN R(Del(w.fs, file_path), Raise("MetadataRemoval"), w.log,
           w.ops \o <<"unlink", "rename">>)
    ELSE R(RenameFile(Del(w.fs, file_path), output_path, file_path),
           Ret(file_path), w.log, w.ops \o <<"unlink", "rename">>)

\* The in_place branch after the stripped copy was written (w): unlink the
\* original, rename the copy onto it; any exception is MetadataRemovalError.
ReplaceOriginal(w, file_path, output_path, fault) ==
    IF w.out.st = "raise" THEN w
    ELSE IF fault = "unlink"
    THEN R(w.fs, Raise("MetadataRemoval"), w.log, w.ops \o <<"unlink">>)
    ELSE IF fault = "rename"
    THEN R(Del(w.fs, file_path), Raise("MetadataRemoval"), w.log,
           w.ops \o <<"unlink", "rename">>)
    ELSE R(RenameFile(Del(w.fs, file_path), output_path, file_path),
           Ret(file_path), w.log, w.ops \o <<"unlink", "rename">>)

\* A call's accesses after those of the steps before it.
After(prefix, w) == [w EXCEPT !.ops = prefix \o @]

\* remove_metadata after self._validate_file (v).
RemoveValidated(f, file_path, output_path, in_place, fault, v) ==
    IF v.err # "ok" THEN R(f, Raise(v.err), <<>>, v.ops)
    ELSE IF ~_is_supported(file_path, "image")
    THEN R(f, Raise("UnsupportedMedia"), <<>>, v.ops)
    ELSE IF in_place /\ output_path # None
    THEN R(f, Raise("InvalidInput"), <<>>, v.ops)
    ELSE IF in_place
    THEN After(v.ops,
               ReplaceOriginal(
                   _remove_image_metadata(f, file_path, TempPath(file_path), fault),
                   file_path, TempPath(file_path), fault))
    ELSE After(v.ops,
               _remove_image_metadata(f, file_path,
                   IF output_path # None THEN output_path
                   ELSE CleanPath(file_path),
                   fault))

remove_metadata(f, source, output_path, in_place, fault) ==
    RemoveValidated(f, source, output_path, in_place, fault,
                    _validate_file(f, source, TRUE, in_place))

(***************************************************************************)
(* MediaMetadataExtractor                                                  *)
(***************************************************************************)
TupleV(l) == [t |-> "tuple", v |-> l]
\* str(path): the text of a path, never empty.
PathStr(p) == [t |-> "pathstr", v |-> p]

\* dict.update / dict[key] = value: an existing key keeps its place.
DictSet(d, key, value) ==
    IF \E i \in 1..Len(d) : d[i][1] = key
    THEN [i \in 1..Len(d) |-> IF d[i][1] = key THEN <<key, value>> ELSE d[i]]
    ELSE Append(d, <<key, value>>)

RECURSIVE DictUpdate(_, _)
DictUpdate(d, pairs) ==
    IF pairs = <<>> THEN d
    ELSE DictUpdate(DictSet(d, pairs[1][1], pairs[1][2]), Tail(pairs))

HasKey(d, key) == \E i \in 1..Len(d) : d[i][1] = key
Get(d, key) == d[CHOOSE i \in 1..Len(d) : d[i][1] = key][2]

\* A set of numbers as the sequence of its elements in increasing order.
RECURSIVE Sorted(_)
Sorted(S) ==
    IF S = {} THEN <<>>
    ELSE LET m == CHOOSE x \in S : \A y \in S : x <= y
         IN  <<m>> \o Sorted(S \ {m})

\* st_size of a file, from its content.
SizeOf(data) == 1 + data.pix + Cardinality(data.info) + Cardinality(data.exif)

NoInfo == [path |-> None, size |-> 0]
_get_file_info(f, file_path) ==
    [path |-> file_path, size |-> SizeOf(f[file_path].data)]

\* "1970-01-01T00:00:00": datetime.fromtimestamp(t).isoformat() of the one
\* time stamp the files of the model carry.
ISO_EPOCH == <<49, 57, 55, 48, 45, 48, 49, 45, 48, 49, 84, 48, 48, 58, 48, 48,
               58, 48, 48>>

_get_base_metadata(fi) ==
    IF fi = NoInfo THEN <<>>
    ELSE << <<"file_path", PathStr(fi.path)>>,
            <<"file_size", NumV(fi.size)>>,
            <<"file_created", StrV(ISO_EPOCH)>>,
            <<"file_modified", StrV(ISO_EPOCH)>> >>

\* The EXIF tags of the model: Make, GPSInfo, MakerNote (PIL.ExifTags.TAGS),
\* and the values the decoder gives them.
TagName(tag_id) ==
    CASE tag_id = 271 -> "Make"
      [] tag_id = 34853 -> "GPSInfo"
      [] OTHER -> "MakerNote"
\* GPSTAGS: 1 GPSLatitudeRef, 2 GPSLatitude
GpsRaw == << <<1, StrV(<<78>>)>>, <<2, TupleV(<<NumV(6), NumV(55)>>)>> >>
GpsTagName(key) == IF key = 1 THEN "GPSLatitudeRef" ELSE "GPSLatitude"
ExifValue(tag_id) ==
    CASE tag_id = 271 -> StrV(<<67, 97, 109>>)
      [] tag_id = 34853 -> DictV(GpsRaw)
      [] OTHER -> BytesV(<<255, 65>>)

\* The values of the info channel's entries.
InfoValue(key) ==
    CASE key = "dpi" -> TupleV(<<NumV(72), NumV(72)>>)
      [] key = "exif" -> BytesV(<<69, 120, 105, 102, 0, 0, 255>>)
      [] key = "quality" -> NumV(75)
      [] OTHER -> NoneV
InfoRank(key) ==
    CASE key = "dpi" -> 1 [] key = "exif" -> 2 [] key = "quality" -> 3
      [] OTHER -> 4
InfoKeyAt(n) ==
    CASE n = 1 -> "dpi" [] n = 2 -> "exif" [] n = 3 -> "quality"
      [] OTHER -> "transparency"
InfoDict(info) ==
    LET ks == Sorted({InfoRank(key) : key \in info})
    IN  [i \in 1..Len(ks) |-> <<InfoKeyAt(ks[i]), InfoValue(InfoKeyAt(ks[i]))>>]

\* _extract_exif_data: img._getexif() with each tag id replaced by its name.
_extract_exif_data(img) ==
    LET ids == Sorted(img.exif)
    IN  [i \in 1..Len(ids) |-> <<TagName(ids[i]), ExifValue(ids[i])>>]

_extract_gps_data(gps_info) ==
    [i \in 1..Len(gps_info) |-> <<GpsTagName(gps_info[i][1]), gps_info[i][2]>>]

\* The code points of "image", "pdf", "audio/video", "N/A" is STR_NA.
STR_IMAGE == <<105, 109, 97, 103, 101>>
STR_PDF == <<112, 100, 102>>
STR_AV == <<97, 117, 100, 105, 111, 47, 118, 105, 100, 101, 111>>
FormatStr(fmt) ==
    CASE fmt = "JPEG" -> <<74, 80, 69, 71>>
      [] fmt = "PNG" -> <<80, 78, 71>>
      [] OTHER -> <<73, 77, 71>>
ModeStr(mode) ==
    CASE mode = "RGB" -> <<82, 71, 66>>
      [] mode = "RGBA" -> <<82, 71, 66, 65>>
      [] OTHER -> <<80>>

\* Each decoder: the outcome (a record, or the error raised) for the file.
ImageFields(img) ==
    << <<"format", StrV(FormatStr(img.fmt))>>,
       <<"size", TupleV(<<NumV(img.pix), NumV(img.pix)>>)>>,
       <<"mode", StrV(ModeStr(img.mode))>>,
       <<"info", DictV(InfoDict(img.info))>>,
       <<"is_animated", BoolV(FALSE)>>,
       <<"frames", NumV(1)>> >>

\* if exif_data: metadata["exif"] = exif_data, and "gps" when it has GPSInfo
WithExif(metadata, exif_data) ==
    IF exif_data = <<>> THEN metadata
    ELSE IF HasKey(exif_data, "GPSInfo")
    THEN DictSet(DictSet(metadata, "exif", DictV(exif_data)), "gps",
                 DictV(_extract_gps_data(Get(exif_data, "GPSInfo").v)))
    ELSE DictSet(metadata, "exif", DictV(exif_data))

_extract_image_metadata(f, fi, image_path) ==
    IF ~IsFile(f, image_path) THEN Raise("Generic")
    ELSE IF f[image_path].data.k # "img" THEN Raise("UnsupportedMedia")
    ELSE Ret(_clean_metadata_dict(
            WithExif(DictUpdate(DictUpdate(<< <<"file_type", StrV(STR_IMAGE)>> >>,
                                           _get_base_metadata(fi)),
                                ImageFields(f[image_path].data)),
                     _extract_exif_data(f[image_path].data))))

_extract_pdf_metadata(f, fi, pdf_path) ==
    IF ~IsFile(f, pdf_path) \/ f[pdf_path].data.k # "pdf"
    THEN Raise("Generic")
    ELSE Ret(_clean_metadata_dict(
            DictUpdate(DictUpdate(<< <<"file_type", StrV(STR_PDF)>> >>,
                                  _get_base_metadata(fi)),
                 << <<"pages", NumV(1)>>,
                    <<"author", StrV(STR_NA)>>,
                    <<"title", StrV(<<>>)>>,
                    <<"encrypted", BoolV(FALSE)>>,
                    <<"xmp_metadata", DictV(<<>>)>> >>)))

_extract_av_metadata(f, fi, file_path) ==
    IF ~IsFile(f, file_path) \/ f[file_path].data.k # "av"
    THEN \* File() fails or returns None: the UnsupportedMediaError raised
         \* inside the try is caught by its except Exception
         Raise("Generic")
    ELSE Ret(_clean_metadata_dict(
            DictUpdate(DictUpdate(<< <<"file_type", StrV(STR_AV)>> >>,
                                  _get_base_metadata(fi)),
                 << <<"mime_type", StrV(<<97>>)>>,
                    <<"length_seconds", NumV(3)>>,
                    <<"bitrate", StrV(STR_NA)>>,
                    <<"tags", DictV(<<>>)>> >>)))

\* What the extractor's calls leave: as R, and the instance's _file_info.
X(f, o, lg, op, fi) == [fs |-> f, out |-> o, log |-> lg, ops |-> op, fi |-> fi]

\* An extractor that reads the file information once and keeps it: a later
\* call describes the file of the first.
ExtractValidatedStale(f, fi, file_path, v) ==
    IF v.err # "ok" THEN X(f, Raise(v.err), <<>>, v.ops, fi)
    ELSE IF _get_extension(file_path) \in SUPPORTED_EXTENSIONS.image
    THEN X(f, _extract_image_metadata(f, (IF fi = NoInfo THEN _get_file_info(f, file_path) ELSE fi), file_path),
           <<>>, v.ops \o <<"stat", "open", "read">>, (IF fi = NoInfo THEN _get_file_info(f, file_path) ELSE fi))
    ELSE IF _get_extension(file_path) \in SUPPORTED_EXTENSIONS.pdf
    THEN X(f, _extract_pdf_metadata(f, (IF fi = NoInfo THEN _get_file_info(f, file_path) ELSE fi), file_path),
           <<>>, v.ops \o <<"stat", "open", "read">>, (IF fi = NoInfo THEN _get_file_info(f, file_path) ELSE fi))
    ELSE IF _get_extension(file_path) \in SUPPORTED_EXTENSIONS.audio
                                             \cup SUPPORTED_EXTENSIONS.video
    THEN X(f, _extract_av_metadata(f, (IF fi = NoInfo THEN _get_file_info(f, file_path) ELSE fi), file_path),
           <<>>, v.ops \o <<"stat", "open", "read">>, (IF fi = NoInfo THEN _get_file_info(f, file_path) ELSE fi))
    ELSE X(f, Raise("UnsupportedMedia"), <<>>, v.ops \o <<"stat">>,
           (IF fi = NoInfo THEN _get_file_info(f, file_path) ELSE fi))

\* _extract_from_file after self._validate_file (v).
ExtractValidated(f, fi, file_path, v) ==
    IF v.err # "ok" THEN X(f, Raise(v.err), <<>>, v.ops, fi)
    ELSE IF _get_extension(file_path) \in SUPPORTED_EXTENSIONS.image
    THEN X(f, _extract_image_metadata(f, _get_file_info(f, file_path), file_path),
           <<>>, v.ops \o <<"stat", "open", "read">>, _get_file_info(f, file_path))
    ELSE IF _get_extension(file_path) \in SUPPORTED_EXTENSIONS.pdf
    THEN X(f, _extract_pdf_metadata(f, _get_file_info(f, file_path), file_path),
           <<>>, v.ops \o <<"stat", "open", "read">>, _get_file_info(f, file_path))
    ELSE IF _get_extension(file_path) \in SUPPORTED_EXTENSIONS.audio
                                             \cup SUPPORTED_EXTENSIONS.video
    THEN X(f, _extract_av_metadata(f, _get_file_info(f, file_path), file_path),
           <<>>, v.ops \o <<"stat", "open", "read">>, _get_file_info(f, file_path))
    ELSE X(f, Raise("UnsupportedMedia"), <<>>, v.ops \o <<"stat">>,
           _get_file_info(f, file_path))

_extract_from_file(f, fi, file_path) ==
    ExtractValidated(f, fi, file_path, _validate_file(f, file_path, TRUE, FALSE))

(***************************************************************************)
(* URL sources.  What the network does during one call is the call's input *)
(* net: the GET's fate, the Content-Type, the body, whether the stream     *)
(* breaks after the temporary file was opened, whether the HEAD probe      *)
(* answers, and whether unlinking the temporary file fails.                *)
(***************************************************************************)
Url == <<Nm(<<"http", "example">>, "")>>

_get_extension_from_content_type(content_type) ==
    CASE content_type = "image/jpeg" -> ".jpg"
      [] content_type = "image/png" -> ".png"
      [] content_type = "image/gif" -> ".gif"
      [] content_type = "application/pdf" -> ".pdf"
      [] content_type = "audio/mpeg" -> ".mp3"
      [] content_type = "video/mp4" -> ".mp4"
      [] content_type = "video/quicktime" -> ".mov"
      [] OTHER -> ""

\* str(datetime.now().timestamp()) as one token of the file name.
TimeToken(clk) ==
    CASE clk = 0 -> "t0" [] clk = 1 -> "t1" [] clk = 2 -> "t2"
      [] clk = 3 -> "t3" [] OTHER -> "t4"

TempName(clk, ext) == <<Nm(<<"mmt_temp_", TimeToken(clk)>>, ext)>>

_download_url(f, clk, net) ==
    IF net.get # "ok"
    THEN \* the request fails, or raise_for_status: RequestException
         [fs |-> f, out |-> Raise("Network"), ops |-> <<>>]
    ELSE LET e == _get_extension_from_content_type(net.ctype)
             ext == IF e # "" THEN e ELSE ".tmp"
             temp_file == TempName(clk, ext)
         IN  IF net.mid
             THEN \* iter_content raises after temp_file.open("wb")
                  [fs |-> Put(f, temp_file, FileE(Partial, TRUE, TRUE)),
                   out |-> Raise("Network"), ops |-> <<"open_w", "write">>]
             ELSE [fs |-> Put(f, temp_file, FileE(net.body, TRUE, TRUE)),
                   out |-> Ret(temp_file), ops |-> <<"open_w", "write">>]

\* "unknown"
STR_UNKNOWN == <<117, 110, 107, 110, 111, 119, 110>>
CtypeStr(content_type) ==
    CASE content_type = "image/jpeg" -> <<105, 47, 106>>
      [] content_type = "application/pdf" -> <<97, 47, 112>>
      [] OTHER -> <<116, 47, 104>>
_get_url_content_type(net) ==
    IF net.head THEN StrV(CtypeStr(net.ctype)) ELSE StrV(STR_UNKNOWN)

\* A finally clause that lets the failure of unlink escape: the error of the
\* deletion replaces the record or the error of the try suite.
ExtractedFromTempEscalating(e, d, url, net) ==
    X(IF net.unlink THEN e.fs ELSE Del(e.fs, d.out.val),
      IF net.unlink THEN Raise("FileOperation")
      ELSE IF e.out.st = "raise" THEN e.out
      ELSE Ret(DictUpdate(e.out.val,
               << <<"source_url", PathStr(url)>>,
                  <<"content_type", _get_url_content_type(net)>> >>)),
      e.log,
      d.ops \o e.ops \o <<"unlink">>,
      e.fi)

\* The try/finally of _extract_from_url: e is what _extract_from_file left;
\* the record is updated on success, and the temporary file is unlinked on
\* every way out, a failing unlink being logged.
ExtractedFromTemp(e, d, url, net) ==
    X(IF net.unlink THEN e.fs ELSE Del(e.fs, d.out.val),
      IF e.out.st = "raise" THEN e.out
      ELSE Ret(DictUpdate(e.out.val,
               << <<"source_url", PathStr(url)>>,
                  <<"content_type", _get_url_content_type(net)>> >>)),
      IF net.unlink THEN e.log \o <<"warning: Could not delete temp file">>
      ELSE e.log,
      d.ops \o e.ops \o <<"unlink">>,
      e.fi)

\* _extract_from_url after self._download_url (d).
Downloaded(d, fi, url, net) ==
    IF d.out.st = "raise" THEN X(d.fs, d.out, <<>>, d.ops, fi)
    ELSE ExtractedFromTemp(_extract_from_file(d.fs, fi, d.out.val), d, url, net)

_extract_from_url(f, fi, clk, url, net) ==
    Downloaded(_download_url(f, clk, net), fi, url, net)

\* except Exception of extract: log, raise MediaMetadataError.
ExtractWrapped(r) ==
    IF r.out.st = "raise"
    THEN X(r.fs, Raise("Generic"), r.log \o <<"error: Metadata extraction failed">>,
           r.ops, r.fi)
    ELSE r

extract(f, fi, clk, source, is_url, net) ==
    ExtractWrapped(IF is_url THEN _extract_from_url(f, fi, clk, source, net)
                   ELSE _extract_from_file(f, fi, source))

(***************************************************************************)
(* Directories                                                             *)
(***************************************************************************)
\* Path.mkdir(parents, exist_ok).  A path longer than the file system
\* accepts is refused (ENAMETOOLONG).
RECURSIVE Mkdir(_, _, _, _)
\* The directory p made in what making its parent left (m).
MkdirIn(m, p) ==
    IF m.err # "ok" THEN m ELSE [fs |-> Put(m.fs, p, DirE), err |-> "ok"]
Mkdir(f, p, parents, exist_ok) ==
    IF Exists(f, p)
    THEN IF exist_ok /\ IsDir(f, p) THEN [fs |-> f, err |-> "ok"]
         ELSE [fs |-> f, err |-> "FileExistsError"]
    ELSE IF Len(p) > MaxDepth THEN [fs |-> f, err |-> "OSError"]
    ELSE IF IsDir(f, Parent(p)) THEN [fs |-> Put(f, p, DirE), err |-> "ok"]
    ELSE IF Exists(f, Parent(p)) THEN [fs |-> f, err |-> "NotADirectoryError"]
    ELSE IF ~parents THEN [fs |-> f, err |-> "FileNotFoundError"]
    ELSE MkdirIn(Mkdir(f, Parent(p), TRUE, TRUE), p)

\* The order of a directory listing is the file system's: the names in one
\* fixed order, or in its reverse.
StemRank(tok) ==
    CASE tok = "a" -> 1 [] tok = "b" -> 2 [] tok = "c" -> 3
      [] tok = "clean_metadata" -> 4 [] tok = "n" -> 5 [] tok = "sub" -> 6
      [] OTHER -> 7
TokenRank(stem) ==
    IF Len(stem) < 2 THEN 0
    ELSE CASE stem[2] = "_temp" -> 1 [] stem[2] = "_clean" -> 2 [] OTHER -> 3
ExtRank(ext) ==
    CASE ext = "" -> 0 [] ext = ".jpg" -> 1 [] ext = ".png" -> 2
      [] ext = ".pdf" -> 3 [] OTHER -> 4
NameRank(name) ==
    100 * StemRank(name.stem[1]) + 10 * TokenRank(name.stem) + ExtRank(name.ext)
\* The entry of S with the given rank.
Ranked(S, rank) == CHOOSE q \in S : NameRank(PathName(q)) = rank
ListingOf(S, ranks, rev) ==
    [i \in 1..Len(ranks) |->
        Ranked(S, ranks[IF rev THEN Len(ranks) + 1 - i ELSE i])]
Listing(f, d, rev) ==
    ListingOf(Children(f, d),
              Sorted({NameRank(PathName(q)) : q \in Children(f, d)}), rev)

CleanDirName == Nm(<<"clean_metadata">>, "")

RECURSIVE remove_metadata_from_directory(_, _, _, _, _)
RECURSIVE DirLoop(_, _, _, _, _, _, _)

\* The try of the loop body: w is what remove_metadata left for the item.  A
\* failure is logged and the loop goes on; a success is one more path.
FileDone(w) ==
    IF w.out.st = "raise"
    THEN R(w.fs, Ret(<<>>), w.log \o <<"warning: Skipped">>, w.ops)
    ELSE R(w.fs, Ret(<<w.out.val>>), w.log, w.ops)

\* dest_path.parent.mkdir(parents=True, exist_ok=True) left m; then
\* remove_metadata(item, dest_path), both inside the try.
FileItem(m, item, dest_path, env) ==
    IF m.err # "ok"
    THEN R(m.fs, Ret(<<>>), <<"warning: Skipped">>, <<"mkdir">>)
    ELSE After(<<"mkdir">>,
               FileDone(remove_metadata(m.fs, item, dest_path, FALSE,
                            IF item \in env.failing THEN env.fault ELSE "none")))

\* One round of the loop body, for one entry of the listing.  What it
\* returns is the paths the round adds to processed_files; it raises only
\* what the call for a subdirectory raises.
ItemStep(f, item, dir_path, output_path, recursive, env) ==
    IF IsDir(f, item) /\ recursive
    THEN After(<<"is_dir">>,
               remove_metadata_from_directory(f, item,
                   output_path \o <<PathName(item)>>, recursive, env))
    ELSE IF IsFile(f, item) /\ _is_supported(item, "image")
    THEN After(<<"is_dir", "is_file">>,
               FileItem(Mkdir(f,
                              Parent(output_path \o
                                  (IF recursive THEN relative_to(item, dir_path)
                                   ELSE <<PathName(item)>>)),
                              TRUE, TRUE),
                        item,
                        output_path \o
                            (IF recursive THEN relative_to(item, dir_path)
                             ELSE <<PathName(item)>>),
                        env))
    ELSE R(f, Ret(<<>>), <<>>, <<"is_dir", "is_file">>)

\* The loop after one round (s), with the entries still to visit.
DirNext(s, items, dir_path, output_path, recursive, env, acc) ==
    IF s.out.st = "raise"
    THEN R(s.fs, s.out, acc.log \o s.log, acc.ops \o s.ops)
    ELSE DirLoop(s.fs, items, dir_path, output_path, recursive, env,
                 [processed |-> acc.processed \o s.out.val,
                  log |-> acc.log \o s.log,
                  ops |-> acc.ops \o s.ops])

\* The for loop over dir_path.iterdir(): items are the entries still to
\* visit, acc what the loop has built so far.
DirLoop(f, items, dir_path, output_path, recursive, env, acc) ==
    IF items = <<>> THEN R(f, Ret(acc.processed), acc.log, acc.ops)
    ELSE DirNext(ItemStep(f, Head(items), dir_path, output_path, recursive, env),
                 Tail(items), dir_path, output_path, recursive, env, acc)

\* remove_metadata_from_directory after output_path.mkdir(exist_ok=True) (m).
DirMade(m, dir_path, output_path, recursive, env) ==
    IF m.err # "ok" THEN R(m.fs, Raise(m.err), <<>>, <<"mkdir">>)
    ELSE DirLoop(m.fs, Listing(m.fs, dir_path, env.rev), dir_path, output_path,
                 recursive, env,
                 [processed |-> <<>>, log |-> <<>>, ops |-> <<"mkdir", "listdir">>])

OutputRoot(dir_path, output_dir) ==
    IF output_dir # None THEN output_dir ELSE dir_path \o <<CleanDirName>>

\* remove_metadata_from_directory after self._validate_file (v).
DirValidated(f, dir_path, output_dir, recursive, env, v) ==
    IF v.err # "ok" THEN R(f, Raise(v.err), <<>>, v.ops)
    ELSE IF ~IsDir(f, dir_path)
    THEN R(f, Raise("InvalidInput"), <<>>, v.ops \o <<"is_dir">>)
    ELSE After(v.ops \o <<"is_dir">>,
               DirMade(Mkdir(f, OutputRoot(dir_path, output_dir), FALSE, TRUE),
                       dir_path, OutputRoot(dir_path, output_dir), recursive, env))

remove_metadata_from_directory(f, directory, output_dir, recursive, env) ==
    DirValidated(f, directory, output_dir, recursive, env,
                 _validate_file(f, directory, TRUE, FALSE))

(***************************************************************************)
(* MediaMetadataToolkit                                                    *)
(***************************************************************************)
\* Whether json.dump accepts the value: byte strings are refused.
RECURSIVE JsonOk(_)
JsonOk(value) ==
    CASE value.t = "bytes" -> FALSE
      [] value.t \in {"list", "tuple"} ->
            \A i \in 1..Len(value.v) : JsonOk(value.v[i])
      [] value.t = "dict" -> \A i \in 1..Len(value.v) : JsonOk(value.v[i][2])
      [] OTHER -> TRUE

\* _save_metadata after output_path.parent.mkdir(parents=True,
\* exist_ok=True) (m), whose errors are raised as they are; those of the
\* open and the write are raised as FileOperationError.
MetadataWritten(m, metadata, output_path) ==
    IF m.err # "ok"
    THEN [fs |-> m.fs, err |-> m.err, ops |-> <<"mkdir">>]
    ELSE IF IsDir(m.fs, output_path)
              \/ (Exists(m.fs, output_path) /\ ~m.fs[output_path].w)
    THEN [fs |-> m.fs, err |-> "FileOperation", ops |-> <<"mkdir", "open_w">>]
    ELSE IF /\ Lower(PathName(output_path).ext) = ".json"
            /\ \E i \in 1..Len(metadata) : ~JsonOk(metadata[i][2])
    THEN [fs |-> Put(m.fs, output_path, FileE(Partial, TRUE, TRUE)),
          err |-> "FileOperation", ops |-> <<"mkdir", "open_w", "write">>]
    ELSE [fs |-> Put(m.fs, output_path, FileE(Blob("text"), TRUE, TRUE)),
          err |-> "ok", ops |-> <<"mkdir", "open_w", "write">>]

_save_metadata(f, metadata, output_path) ==
    MetadataWritten(Mkdir(f, Parent(output_path), TRUE, TRUE), metadata,
                    output_path)

\* The extract branch after self._save_metadata (s) on the record of e.
Saved(s, e) ==
    X(s.fs, IF s.err = "ok" THEN e.out ELSE Raise(s.err), e.log,
      e.ops \o s.ops, e.fi)

\* The extract branch after self.extractor.extract (e).
Extracted(e, output) ==
    IF e.out.st = "raise" \/ output = None THEN e
    ELSE Saved(_save_metadata(e.fs, e.out.val, output), e)

\* The remove branch's result (w) as the facade's, which keeps _file_info.
Removed(w, fi) == X(w.fs, w.out, w.log, <<"is_dir">> \o w.ops, fi)

\* The try suite of process.
ProcessBody(f, fi, clk, source, operation, output, kw, env) ==
    IF operation = "extract"
    THEN Extracted(extract(f, fi, clk, source, kw.is_url, env.net), output)
    ELSE IF operation = "remove"
    THEN IF kw.is_url THEN X(f, Raise("InvalidInput"), <<>>, <<>>, fi)
         ELSE IF IsDir(f, source)
         THEN Removed(remove_metadata_from_directory(f, source, output,
                                                     kw.recursive, env), fi)
         ELSE Removed(remove_metadata(f, source, output, kw.in_place, env.fault),
                      fi)
    ELSE X(f, Raise("InvalidInput"), <<>>, <<>>, fi)

\* A facade that swallows: it logs the failure marker and returns None.
MarkedSwallowing(b) ==
    [b EXCEPT !.log = <<"info: Starting operation">> \o b.log
                  \o (IF b.out.st = "raise"
                      THEN <<"info: Operation failed">> ELSE <<>>),
              !.out = IF b.out.st = "raise" THEN Ret(<<>>) ELSE b.out]

\* The markers around the try suite (b).  Every branch of the suite returns
\* or raises, so the else clause of the try, which logs the success marker,
\* is never entered: only the start and the failure markers are logged.
Marked(b) ==
    [b EXCEPT !.log = <<"info: Starting operation">> \o b.log
                  \o (IF b.out.st = "raise"
                      THEN <<"info: Operation failed">> ELSE <<>>)]

process(f, fi, clk, source, operation, output, kw, env) ==
    Marked(ProcessBody(f, fi, clk, source, operation, output, kw, env))

(***************************************************************************)
(* The files, inputs and faults of the model                               *)
(***************************************************************************)
Root == <<>>
A == <<Nm(<<"a">>, ".jpg")>>
ATemp == <<Nm(<<"a", "_temp">>, ".jpg")>>
AClean == <<Nm(<<"a", "_clean">>, ".jpg")>>
OutFile == <<Nm(<<"out">>, ".jpg")>>
Doc == <<Nm(<<"n">>, ".PDF")>>
Xyz == <<Nm(<<"x">>, ".xyz")>>
Missing == <<Nm(<<"m">>, ".jpg")>>
D == <<Nm(<<"d">>, "")>>
MetaJson == <<Nm(<<"meta">>, ".json")>>
MetaTxt == <<Nm(<<"meta">>, ".txt")>>

PlainImg == Img("JPEG", 1, "RGB", {"dpi"}, {})
ExifImg == Img("JPEG", 1, "RGB", {"dpi", "exif"}, {271, 34853, 37500})
GrayImg == Img("JPEG", 1, "L", {}, {})
OtherImg(n) == Img("JPEG", n, "RGB", {}, {})

NoNet == [get |-> "none", ctype |-> "", body |-> Junk, mid |-> FALSE,
          head |-> FALSE, unlink |-> FALSE]
NetCase(get, ctype, body, mid, head, unlink) ==
    [get |-> get, ctype |-> ctype, body |-> body, mid |-> mid, head |-> head,
     unlink |-> unlink]
NetCases ==
    {NetCase("fail", "", Junk, FALSE, FALSE, FALSE),
     NetCase("http_error", "image/jpeg", Junk, FALSE, TRUE, FALSE),
     NetCase("ok", "image/jpeg", ExifImg, FALSE, TRUE, FALSE),
     NetCase("ok", "image/jpeg", PlainImg, FALSE, FALSE, TRUE),
     NetCase("ok", "image/jpeg", Junk, FALSE, TRUE, FALSE),
     NetCase("ok", "image/jpeg", Junk, FALSE, TRUE, TRUE),
     NetCase("ok", "image/jpeg", PlainImg, TRUE, TRUE, FALSE),
     NetCase("ok", "application/pdf", PdfDoc, FALSE, FALSE, FALSE),
     NetCase("ok", "text/html", Junk, FALSE, TRUE, FALSE)}

NoCall ==
    [op |-> "none", source |-> None, output |-> None, is_url |-> FALSE,
     in_place |-> FALSE, recursive |-> FALSE, fault |-> "none", net |-> NoNet,
     rev |-> FALSE, failing |-> {}]

Env(c) == [fault |-> c.fault, net |-> c.net, rev |-> c.rev, failing |-> c.failing]
Kw(c) == [is_url |-> c.is_url, in_place |-> c.in_place, recursive |-> c.recursive]

\* The file systems a behaviour of Spec starts from.
BaseFS ==
    [p \in {Root, Doc, Xyz, D} |->
        CASE p = Root -> DirE
          [] p = D -> DirE
          [] p = Doc -> FileE(PdfDoc, TRUE, TRUE)
          [] OTHER -> FileE(Junk, TRUE, TRUE)]
WithFile(f, p, present, e) == IF present THEN Put(f, p, e) ELSE f
InitFiles ==
    {WithFile(WithFile(WithFile(Put(BaseFS, A, a),
                                ATemp, t, FileE(OtherImg(2), TRUE, TRUE)),
                       AClean, c, FileE(OtherImg(3), TRUE, TRUE)),
              OutFile, o, FileE(OtherImg(4), TRUE, TRUE)) :
        a \in {FileE(PlainImg, TRUE, TRUE), FileE(ExifImg, TRUE, TRUE),
               FileE(GrayImg, TRUE, TRUE), FileE(Junk, TRUE, TRUE),
               FileE(PlainImg, TRUE, FALSE)},
        t \in BOOLEAN, c \in BOOLEAN, o \in BOOLEAN}
    \cup {Put(Put(BaseFS, A, FileE(PlainImg, TRUE, TRUE)),
               Doc, FileE(PdfDoc, pm[1], pm[2])) :
            pm \in {<<FALSE, TRUE>>, <<TRUE, FALSE>>}}

\* The calls of process with operation "remove" on a single path.
RemoveCalls ==
    {[NoCall EXCEPT !.op = "remove", !.source = A, !.in_place = TRUE,
                    !.fault = ft] :
        ft \in {"none", "open", "save_partial", "save_clean", "unlink", "rename"}}
    \cup {[NoCall EXCEPT !.op = "remove", !.source = A, !.output = o,
                         !.fault = ft] :
            o \in {None, OutFile}, ft \in {"none", "save_partial", "save_clean"}}
    \cup {[NoCall EXCEPT !.op = "remove", !.source = src, !.output = OutFile,
                         !.in_place = TRUE] : src \in {A, Doc, Missing, D}}
    \cup {[NoCall EXCEPT !.op = "remove", !.source = src, !.in_place = ip] :
            src \in {Doc, Xyz, Missing, D}, ip \in BOOLEAN}
    \cup {[NoCall EXCEPT !.op = "remove", !.source = Url, !.is_url = TRUE]}

\* The calls of process with operation "extract".
ExtractFileCalls ==
    {[NoCall EXCEPT !.op = "extract", !.source = src] :
        src \in {A, AClean, OutFile, Doc, Xyz, Missing}}
    \cup {[NoCall EXCEPT !.op = "extract", !.source = A, !.output = o] :
            o \in {MetaJson, MetaTxt}}
ExtractUrlCalls ==
    {[NoCall EXCEPT !.op = "extract", !.source = Url, !.is_url = TRUE,
                    !.net = nt] : nt \in NetCases}

(***************************************************************************)
(* Spec: calls of MediaMetadataToolkit.process, one whole call per step.   *)
(***************************************************************************)
Init ==
    /\ fs \in InitFiles
    /\ pre = fs
    /\ call = NoCall
    /\ out = Ret(<<>>)
    /\ log = <<>>
    /\ ops = <<>>
    /\ file_info = NoInfo
    /\ clock = 0
    /\ san = NoSan
    /\ cls = NoCls
    /\ ncalls = 0

\* The state after a call c that left r.
Called(c, r) ==
    /\ ncalls' = ncalls + 1
    /\ pre' = fs
    /\ call' = c
    /\ fs' = r.fs
    /\ out' = r.out
    /\ log' = r.log
    /\ ops' = r.ops
    /\ file_info' = r.fi
    /\ clock' = IF c.is_url THEN clock + 1 ELSE clock
    /\ UNCHANGED <<san, cls>>

\* One call of process(source, operation, output, **kwargs).
Process(c) ==
    Called(c, process(fs, file_info, clock, c.source, c.op, c.output, Kw(c),
                      Env(c)))

ProcessRemove ==
    /\ ncalls < MaxCalls
    /\ \E c \in RemoveCalls : Process(c)
ProcessExtractFile ==
    /\ ncalls < MaxCalls
    /\ \E c \in ExtractFileCalls : Process(c)
ProcessExtractUrl ==
    /\ ncalls < MaxCalls
    /\ \E c \in ExtractUrlCalls : Process(c)
ProcessUnknown ==
    /\ ncalls < MaxCalls
    /\ Process([NoCall EXCEPT !.op = "convert", !.source = A])

Next ==
    \/ ProcessRemove
    \/ ProcessExtractFile
    \/ ProcessExtractUrl
    \/ ProcessUnknown

Spec == Init /\ [][Next]_vars

(***************************************************************************)
(* SpecSan: passes of the sanitizer over one record.                       *)
(***************************************************************************)
InitSan ==
    /\ san \in {[input |-> r, prev |-> r, cur |-> r, passes |-> 0] :
                    r \in SanRecords}
    /\ cls = NoCls
    /\ fs = BaseFS
    /\ pre = fs
    /\ call = NoCall
    /\ out = Ret(<<>>)
    /\ log = <<>>
    /\ ops = <<>>
    /\ file_info = NoInfo
    /\ clock = 0
    /\ ncalls = 0

\* cleaned = self._clean_metadata_dict(cleaned)
SanitizePass ==
    /\ san.passes < MaxPasses
    /\ san' = [input |-> san.input, prev |-> san.cur,
               cur |-> _clean_metadata_dict(san.cur), passes |-> san.passes + 1]
    /\ UNCHANGED <<fs, pre, call, out, log, ops, file_info, clock, cls, ncalls>>

NextSan == SanitizePass

SpecSan == InitSan /\ [][NextSan]_vars

(***************************************************************************)
(* SpecDir: calls of remove_metadata_from_directory on the tree under d.   *)
(***************************************************************************)
DA == D \o <<Nm(<<"a">>, ".jpg")>>
DB == D \o <<Nm(<<"b">>, ".jpg")>>
DN == D \o <<Nm(<<"n">>, ".pdf")>>
Sub == D \o <<Nm(<<"sub">>, "")>>
SC == Sub \o <<Nm(<<"c">>, ".Png")>>
OutDir == <<Nm(<<"out">>, "")>>

BaseTree == [p \in {Root, D} |-> DirE]
InitTrees ==
    {WithFile(WithFile(WithFile(WithFile(WithFile(BaseTree,
                DA, a # "none",
                FileE(CASE a = "plain" -> PlainImg [] a = "exif" -> ExifImg
                        [] OTHER -> Junk, TRUE, TRUE)),
             DB, b, FileE(GrayImg, TRUE, TRUE)),
          DN, n, FileE(PdfDoc, TRUE, TRUE)),
        Sub, sb # "none", DirE),
      SC, sb = "full", FileE(Img("PNG", 2, "RGBA", {"dpi"}, {}), TRUE, TRUE)) :
        a \in {"none", "plain", "exif", "junk"}, b \in BOOLEAN, n \in BOOLEAN,
        sb \in {"none", "empty", "full"}}

\* Calls on d: every output root and listing order with nothing injected,
\* and a failing save of d/a.jpg for the roots outside d's own files.
DirCall(o, rc, rv, failing, fault) ==
    [NoCall EXCEPT !.op = "remove_dir", !.source = D, !.output = o,
                   !.recursive = rc, !.rev = rv, !.failing = failing,
                   !.fault = fault]
DirCalls ==
    {DirCall(o, rc, rv, {}, "none") :
        o \in {None, OutDir, D}, rc \in BOOLEAN, rv \in BOOLEAN}
    \cup {DirCall(o, rc, FALSE, {DA}, "save_partial") :
        o \in {None, OutDir}, rc \in BOOLEAN}

InitDir ==
    /\ fs \in InitTrees
    /\ pre = fs
    /\ call = NoCall
    /\ out = Ret(<<>>)
    /\ log = <<>>
    /\ ops = <<>>
    /\ file_info = NoInfo
    /\ clock = 0
    /\ san = NoSan
    /\ cls = NoCls
    /\ ncalls = 0

\* The state after a call c of the remover that left r.
RemoverCalled(c, r) ==
    /\ ncalls' = ncalls + 1
    /\ pre' = fs
    /\ call' = c
    /\ fs' = r.fs
    /\ out' = r.out
    /\ log' = r.log
    /\ ops' = r.ops
    /\ UNCHANGED <<file_info, clock, san, cls>>

\* One call of remover.remove_metadata_from_directory(d, output_dir, recursive).
RemoveDirectory ==
    /\ ncalls < MaxCalls
    /\ \E c \in DirCalls :
          RemoverCalled(c, remove_metadata_from_directory(fs, c.source, c.output,
                                                          c.recursive, Env(c)))

\* One call of process(d, "remove", output, recursive=...), nothing failing
\* but what the tree makes fail.
ProcessDirectory ==
    /\ ncalls < MaxCalls
    /\ \E c \in {x \in DirCalls : x.fault = "none" /\ ~x.rev /\ x.output # D} :
          Process([c EXCEPT !.op = "remove"])

NextDir ==
    \/ RemoveDirectory
    \/ ProcessDirectory

SpecDir == InitDir /\ [][NextDir]_vars

(***************************************************************************)
(* SpecExt: the classification of one file name.  The name is built from   *)
(* a three-letter word, some of its letters in upper case, in one of the   *)
(* forms  w  .w  a.w  a.b.w  aw  a.w.                                      *)
(***************************************************************************)
ExtWords ==
    {<<106, 112, 103>>, <<112, 100, 102>>, <<109, 112, 51>>, <<109, 112, 52>>,
     <<120, 121, 122>>}
ExtForms == {"w", ".w", "a.w", "a.b.w", "aw", "a.w."}

\* The word with the letters at the positions of upper in upper case.
Cased(word, upper) ==
    [i \in 1..Len(word) |->
        IF i \in upper /\ word[i] >= 97 /\ word[i] <= 122
        THEN word[i] - 32 ELSE word[i]]
NameOf(form, w) ==
    CASE form = "w" -> w
      [] form = ".w" -> <<46>> \o w
      [] form = "a.w" -> <<97, 46>> \o w
      [] form = "a.b.w" -> <<97, 46, 98, 46>> \o w
      [] form = "aw" -> <<97>> \o w
      [] OTHER -> <<97, 46>> \o w \o <<46>>
InputName(c) == NameOf(c.form, Cased(c.word, c.upper))

InitExt ==
    /\ cls \in {[form |-> fm, word |-> w, upper |-> u, kind |-> "none"] :
                    fm \in ExtForms, w \in ExtWords, u \in SUBSET (1..3)}
    /\ san = NoSan
    /\ fs = BaseFS
    /\ pre = fs
    /\ call = NoCall
    /\ out = Ret(<<>>)
    /\ log = <<>>
    /\ ops = <<>>
    /\ file_info = NoInfo
    /\ clock = 0
    /\ ncalls = 0

\* ext = self._get_extension(file_path), and the kind it selects.
ClassifyName ==
    /\ cls.kind = "none"
    /\ cls' = [cls EXCEPT !.kind = MediaKind(InputName(cls))]
    /\ UNCHANGED <<fs, pre, call, out, log, ops, file_info, clock, san, ncalls>>

NextExt == ClassifyName

SpecExt == InitExt /\ [][NextExt]_vars

(***************************************************************************)
(* Image Toolkit (image_toolkit.py): ImageValidator and ImageProcessor.    *)
(* An image is pix pixels wide and one pixel high.                         *)
(***************************************************************************)
\* SUPPORTED_EXTENSIONS of image_toolkit.py: extension to Pillow format.
TK_SUPPORTED_EXTENSIONS ==
    [input  |-> {".jpg", ".jpeg", ".png", ".bmp", ".gif", ".tiff", ".webp"},
     output |-> {".jpg", ".jpeg", ".png", ".bmp", ".webp"}]

\* ImageValidator.validate_input_extension / validate_output_extension: the
\* Pillow format of the lowered extension, "" for InvalidExtensionError.
validate_input_extension(ext) ==
    IF Lower(ext) \in TK_SUPPORTED_EXTENSIONS.input
    THEN FormatOf(Lower(ext)) ELSE ""
validate_output_extension(ext) ==
    IF Lower(ext) \in TK_SUPPORTED_EXTENSIONS.output
    THEN FormatOf(Lower(ext)) ELSE ""

\* img.resize((new_width, new_height)) when a width or a height is given (0
\* is None), img.rotate(rotate, expand=True) for a quarter turn.
Resized(img, width, height) ==
    IF width # 0 \/ height # 0
    THEN [img EXCEPT !.pix = (IF width # 0 THEN width ELSE img.pix)
                             * (IF height # 0 THEN height ELSE 1)]
    ELSE img
Rotated(img, rotate) == img

\* img.save(output_path, format=output_format, quality=95, optimize=True):
\* the format is the one given, no exif payload is passed.  The file is
\* opened for writing first; JPEG refuses the mode RGBA after that.
TkSave(f, img, output_path, output_format, fault) ==
    IF ~IsDir(f, Parent(output_path)) \/ Len(output_path) > MaxDepth + 1
    THEN [fs |-> f, err |-> "OSError", ops |-> <<"open_w">>]
    ELSE IF fault = "save_partial" \/ (img.mode = "RGBA" /\ output_format = "JPEG")
    THEN [fs |-> Put(f, output_path, FileE(Partial, TRUE, TRUE)),
          err |-> "OSError", ops |-> <<"open_w", "write">>]
    ELSE [fs |-> Put(f, output_path,
                     FileE(Encoded(img, output_format, {}), TRUE, TRUE)),
          err |-> "ok", ops |-> <<"open_w", "write">>]

\* The except clause of process_image: the error is logged, and whatever is
\* at output_path is unlinked ("clean up partial output"), a failing unlink
\* being passed over.
Failed(f, output_path, fault, tried) ==
    R(IF IsFile(f, output_path) /\ fault # "unlink" THEN Del(f, output_path)
      ELSE f,
      Ret(FALSE), <<"error: Failed to process">>,
      tried \o <<"exists">>
            \o (IF Exists(f, output_path) THEN <<"unlink">> ELSE <<>>))

\* process_image after img.save (s).
ImageSaved(s, output_path, fault) ==
    IF s.err # "ok"
    THEN Failed(s.fs, output_path, fault,
                <<"exists", "exists", "open", "read">> \o s.ops)
    ELSE R(s.fs, Ret(TRUE), <<"info: Processed">>,
           <<"exists", "exists", "open", "read">> \o s.ops)

process_image(f, input_path, output_path, output_format, width, height, rotate, fault) ==
    IF ~Exists(f, input_path)
    THEN \* FileNotFoundError
         Failed(f, output_path, fault, <<"exists">>)
    ELSE IF Exists(f, output_path)
    THEN \* FileExistsError
         Failed(f, output_path, fault, <<"exists", "exists">>)
    ELSE IF ~IsFile(f, input_path) \/ ~f[input_path].r
    THEN \* Image.open raises OSError
         Failed(f, output_path, fault, <<"exists", "exists", "open">>)
    ELSE IF f[input_path].data.k # "img"
    THEN \* UnidentifiedImageError
         Failed(f, output_path, fault, <<"exists", "exists", "open", "read">>)
    ELSE ImageSaved(TkSave(f, Rotated(Resized(OpenedImage(f, input_path),
                                              width, height), rotate),
                           output_path, output_format, fault),
                    output_path, fault)

\* process_directory.  a holds the arguments every level shares: input_ext,
\* output_ext, width, height, rotate and recursive.  A result is the counts
\* <<success, failure, skip>>.
RECURSIVE process_directory(_, _, _, _, _)
RECURSIVE TkLoop(_, _, _, _, _, _)

\* The end of the loop body: r is what process_image left.
TkCounted(r) ==
    R(r.fs, Ret(IF r.out.val THEN <<1, 0, 0>> ELSE <<0, 1, 0>>), r.log,
      <<"is_dir", "is_file", "exists">> \o r.ops)

\* The loop body for a file with the input extension, once its output path
\* is determined: skipped when the output exists and is not the input.
TkFile(f, item, output_path, a, env) ==
    IF Exists(f, output_path) /\ output_path # item
    THEN R(f, Ret(<<0, 0, 1>>), <<>>, <<"is_dir", "is_file", "exists">>)
    ELSE TkCounted(process_image(f, item, output_path,
                       validate_output_extension(a.output_ext),
                       a.width, a.height, a.rotate,
                       IF item \in env.failing THEN env.fault ELSE "none"))

\* One round of the loop, for one entry of the listing.
TkItem(f, item, output_dir, a, env) ==
    IF IsDir(f, item) /\ a.recursive
    THEN After(<<"is_dir">>,
               process_directory(f, item,
                   IF output_dir # None THEN output_dir \o <<PathName(item)>>
                   ELSE None,
                   a, env))
    ELSE IF ~IsFile(f, item)
    THEN R(f, Ret(<<0, 0, 0>>), <<>>, <<"is_dir", "is_file">>)
    ELSE IF Lower(PathName(item).ext) # Lower(a.input_ext)
    THEN R(f, Ret(<<0, 0, 1>>), <<>>, <<"is_dir", "is_file">>)
    ELSE TkFile(f, item,
                IF output_dir # None
                THEN output_dir \o <<Nm(PathName(item).stem, a.output_ext)>>
                ELSE with_name(item, Nm(PathName(item).stem, a.output_ext)),
                a, env)

\* The loop after one round (s), with the entries still to visit.
TkNext(s, items, output_dir, a, env, acc) ==
    IF s.out.st = "raise"
    THEN R(s.fs, s.out, acc.log \o s.log, acc.ops \o s.ops)
    ELSE TkLoop(s.fs, items, output_dir, a, env,
                [counts |-> [i \in 1..3 |-> acc.counts[i] + s.out.val[i]],
                 log |-> acc.log \o s.log,
                 ops |-> acc.ops \o s.ops])

\* The for loop over input_dir.iterdir().
TkLoop(f, items, output_dir, a, env, acc) ==
    IF items = <<>> THEN R(f, Ret(acc.counts), acc.log, acc.ops)
    ELSE TkNext(TkItem(f, Head(items), output_dir, a, env),
                Tail(items), output_dir, a, env, acc)

\* process_directory after the output directory was made (m).
TkDirMade(m, input_dir, output_dir, a, env) ==
    IF m.err # "ok" THEN R(m.fs, Raise(m.err), <<>>, <<"exists", "mkdir">>)
    ELSE IF validate_input_extension(a.input_ext) = ""
            \/ validate_output_extension(a.output_ext) = ""
    THEN \* InvalidExtensionError: logged, (0, 0, 0) returned
         R(m.fs, Ret(<<0, 0, 0>>), <<"error: Unsupported extension">>,
           <<"exists">>)
    ELSE IF ~IsDir(m.fs, input_dir)
    THEN \* iterdir raises
         R(m.fs, Raise(IF Exists(m.fs, input_dir) THEN "NotADirectoryError"
                       ELSE "FileNotFoundError"), <<>>, <<"exists", "listdir">>)
    ELSE TkLoop(m.fs, Listing(m.fs, input_dir, env.rev), output_dir, a, env,
                [counts |-> <<0, 0, 0>>, log |-> <<>>,
                 ops |-> <<"exists", "listdir">>])

process_directory(f, input_dir, output_dir, a, env) ==
    TkDirMade(IF output_dir # None /\ ~Exists(f, output_dir)
              THEN Mkdir(f, output_dir, TRUE, TRUE)
              ELSE [fs |-> f, err |-> "ok"],
              input_dir, output_dir, a, env)

(***************************************************************************)
(* SpecTk: calls of ImageProcessor.process_image and process_directory on  *)
(* the tree under d.                                                       *)
(***************************************************************************)
DAPng == D \o <<Nm(<<"a">>, ".png")>>

\* A call of the Image Toolkit: 0 stands for a width, height or rotation
\* that is None.
TkCall(op, source, output, input_ext, output_ext, width, recursive, failing, fault) ==
    [op |-> op, source |-> source, output |-> output, input_ext |-> input_ext,
     output_ext |-> output_ext, width |-> width, height |-> 0, rotate |-> 0,
     recursive |-> recursive, rev |-> FALSE, failing |-> failing,
     fault |-> fault]
TkArgs(c) ==
    [input_ext |-> c.input_ext, output_ext |-> c.output_ext, width |-> c.width,
     height |-> c.height, rotate |-> c.rotate, recursive |-> c.recursive]

\* process_image(d/a.jpg, output, format of the output's extension): onto a
\* new path, onto another file of the tree, onto the input itself.
ImageCalls ==
    {TkCall("process_image", DA, o, ".jpg", PathName(o).ext, w, FALSE, {DA}, ft) :
        o \in {DAPng, DB, DA}, w \in {0, 2},
        ft \in {"none", "save_partial", "unlink"}}
\* process_directory(d, output_dir, ".jpg", output_ext): in place
\* (output_dir None) or into out, converting or keeping the extension.
TkDirectoryCalls ==
    {TkCall("process_directory", D, o, ".jpg", x, w, rc, {}, "none") :
        o \in {None, OutDir}, x \in {".jpg", ".png", ".xyz"}, w \in {0, 2},
        rc \in BOOLEAN}
    \cup {TkCall("process_directory", D, o, ".jpg", ".png", 0, FALSE, {DA},
                 "save_partial") : o \in {None, OutDir}}

InitTk ==
    /\ fs \in InitTrees
    /\ pre = fs
    /\ call = NoCall
    /\ out = Ret(<<>>)
    /\ log = <<>>
    /\ ops = <<>>
    /\ file_info = NoInfo
    /\ clock = 0
    /\ san = NoSan
    /\ cls = NoCls
    /\ ncalls = 0

\* The state after a call c of the Image Toolkit that left r.
TkCalled(c, r) ==
    /\ ncalls' = ncalls + 1
    /\ pre' = fs
    /\ call' = c
    /\ fs' = r.fs
    /\ out' = r.out
    /\ log' = r.log
    /\ ops' = r.ops
    /\ UNCHANGED <<file_info, clock, san, cls>>

CallProcessImage ==
    /\ ncalls < MaxCalls
    /\ \E c \in ImageCalls :
          TkCalled(c, process_image(fs, c.source, c.output,
                          validate_output_extension(c.output_ext),
                          c.width, c.height, c.rotate, c.fault))
CallProcessDirectory ==
    /\ ncalls < MaxCalls
    /\ \E c \in TkDirectoryCalls :
          TkCalled(c, process_directory(fs, c.source, c.output, TkArgs(c),
                          [rev |-> c.rev, failing |-> c.failing,
                           fault |-> c.fault]))

NextTk ==
    \/ CallProcessImage
    \/ CallProcessDirectory

SpecTk == InitTk /\ [][NextTk]_vars

(***************************************************************************)
(* Properties                                                              *)
(***************************************************************************)
\* How often x occurs in the sequence sq.
Count(sq, x) == Cardinality({i \in 1..Len(sq) : sq[i] = x})
\* The elements of the sequence sq.
Range(sq) == {sq[i] : i \in 1..Len(sq)}
\* The regular files of a file system, and those a call created.
Files(f) == {p \in DOMAIN f : f[p].type = "file"}
Created == DOMAIN fs \ DOMAIN pre
\* The complete stripped content of the image file at p.
StrippedCopy(f, p) ==
    Encoded(OpenedImage(f, p), FormatOf(Lower(PathName(p).ext)), {})
\* The last call was a single-file removal through process.
SingleRemove ==
    /\ call.op = "remove"
    /\ ~call.is_url
    /\ ~IsDir(pre, call.source)

\* C1: after remove_metadata(source, in_place=True) on an existing image
\* file, whichever step failed, the source path holds a file whose content
\* is the complete original or the complete stripped content.
C1_InPlaceKeepsSource ==
    (/\ SingleRemove
     /\ call.in_place
     /\ call.output = None
     /\ IsFile(pre, call.source)
     /\ _is_supported(call.source, "image"))
    => /\ IsFile(fs, call.source)
       /\ \/ fs[call.source].data = pre[call.source].data
          \/ /\ pre[call.source].data.k = "img"
             /\ fs[call.source].data = StrippedCopy(pre, call.source)

\* The temporary download files: mmt_temp_<timestamp><ext> in the working
\* directory.
TempFiles(f) ==
    {p \in DOMAIN f : Len(p) = 1 /\ Len(p[1].stem) = 2 /\ p[1].stem[1] = "mmt_temp_"}

\* C2: after extract(url, is_url=True), on every exit path, no temporary
\* file the call created is left, provided the unlink did not fail.
C2_NoTempFileLeft ==
    (call.op = "extract" /\ call.is_url /\ ~call.net.unlink)
    => TempFiles(fs) \cap Created = {}

StartMarker == "info: Starting operation"
SuccessMarker == "info: Operation completed successfully"
FailedMarker == "info: Operation failed"

\* C3: every call of process logs exactly one start marker, first, and
\* exactly one end marker, last: the success marker when it returns, the
\* failure marker when it raises.
C3_OneStartOneEnd ==
    call.op # "none"
    => /\ Len(log) >= 2
       /\ log[1] = StartMarker
       /\ Count(log, StartMarker) = 1
       /\ Count(log, SuccessMarker) + Count(log, FailedMarker) = 1
       /\ log[Len(log)] = IF out.st = "ret" THEN SuccessMarker ELSE FailedMarker

\* The destination of a removal that is not in place.
Destination(c) == IF c.output # None THEN c.output ELSE CleanPath(c.source)

\* C4: remove_metadata with in_place=False, on an image it can strip, whose
\* destination (the output path, or <stem>_clean<ext>) already exists: the
\* call fails with FileOperation and the destination is unchanged.
C4_ExistingDestinationRefused ==
    (/\ SingleRemove
     /\ ~call.in_place
     /\ IsFile(pre, call.source)
     /\ pre[call.source].data.k = "img"
     /\ Exists(pre, Destination(call)))
    => /\ out = Raise("FileOperation")
       /\ Exists(fs, Destination(call))
       /\ fs[Destination(call)] = pre[Destination(call)]

\* C5: a remove operation given both an output path and in_place=True
\* raises InvalidInput, whatever the source, before any access to the file
\* system and without changing it.
C5_ConflictRaisesFirst ==
    (call.op = "remove" /\ ~call.is_url /\ call.in_place /\ call.output # None)
    => /\ out = Raise("InvalidInput")
       /\ ops = <<>>
       /\ fs = pre

AllExtensions ==
    SUPPORTED_EXTENSIONS.image \cup SUPPORTED_EXTENSIONS.pdf
        \cup SUPPORTED_EXTENSIONS.audio \cup SUPPORTED_EXTENSIONS.video

\* C6: extract on an existing, readable local file whose extension is in
\* none of the tables raises an error of kind UnsupportedMedia.
C6_UnsupportedKindRaised ==
    (/\ call.op = "extract"
     /\ ~call.is_url
     /\ IsFile(pre, call.source)
     /\ pre[call.source].r
     /\ _get_extension(call.source) \notin AllExtensions)
    => out = Raise("UnsupportedMedia")

\* The record extract returns for the file at p has no exif field, or an
\* empty one, and no gps field.
NoExifIn(o) ==
    /\ o.st = "ret"
    /\ ~HasKey(o.val, "exif") \/ Get(o.val, "exif").v = <<>>
    /\ ~HasKey(o.val, "gps")

\* C7: for an image that carries EXIF (its info channel and its EXIF block
\* are not empty), remove_metadata succeeds when nothing else fails, and
\* extracting from the file it produced gives a record without exif and gps.
C7_RoundTripNoExif ==
    (/\ SingleRemove
     /\ call.fault = "none"
     /\ ~(call.in_place /\ call.output # None)
     /\ IsFile(pre, call.source)
     /\ pre[call.source].data.k = "img"
     /\ pre[call.source].data.info # {}
     /\ pre[call.source].data.exif # {})
    => /\ out.st = "ret"
       /\ NoExifIn(extract(fs, file_info, clock, out.val, FALSE, NoNet).out)

\* The files of the tree under directory d, and those the remover can strip.
Under(f, d) == {p \in Files(f) : Len(p) > Len(d) /\ SubSeq(p, 1, Len(d)) = d}
CanStrip(f, p) ==
    /\ _is_supported(p, "image")
    /\ f[p].data.k = "img"
    /\ f[p].data.info \cap SaveKeywords = {}
\* The position under the output root that mirrors p's position under d.
Mirror(c, p) == OutputRoot(c.source, c.output) \o relative_to(p, c.source)
DirectoryCall == call.op \in {"remove_dir", "remove"} /\ IsDir(pre, call.source)

\* C8: remove_metadata_from_directory(dir, output_dir, recursive=True), with
\* the default output_dir or one outside the tree, on a tree with N images
\* it can strip, returns exactly N paths and creates exactly N files, each
\* at the mirror position of its source.
C8_RecursiveMirrorsTree ==
    (/\ DirectoryCall
     /\ call.recursive
     /\ call.failing = {}
     /\ call.output # call.source)
    => /\ out.st = "ret"
       /\ Len(out.val) = Cardinality({p \in Under(pre, call.source) :
                                          CanStrip(pre, p)})
       /\ Range(out.val) = {Mirror(call, p) : p \in
                               {q \in Under(pre, call.source) : CanStrip(pre, q)}}
       /\ Files(fs) \ Files(pre) \subseteq Range(out.val)
       /\ Range(out.val) \subseteq Files(fs)

\* The image files a directory call visits, and those of them whose
\* stripping fails.
Visited(c) ==
    {p \in Under(pre, c.source) :
        /\ _is_supported(p, "image")
        /\ c.recursive \/ Len(p) = Len(c.source) + 1}
Fails(c, p) == ~CanStrip(pre, p) \/ (p \in c.failing /\ c.fault # "none")

\* C9: when stripping some file fails during
\* remove_metadata_from_directory, the failure is logged, the other files
\* are still processed and the call returns the paths of exactly the files
\* that succeeded.
C9_FileFailureDoesNotAbort ==
    (/\ DirectoryCall
     /\ call.output # call.source
     /\ \E p \in Visited(call) : Fails(call, p))
    => /\ out.st = "ret"
       /\ Count(log, "warning: Skipped")
              = Cardinality({p \in Visited(call) : Fails(call, p)})
       /\ Range(out.val) = {Mirror(call, p) : p \in
                               {q \in Visited(call) : ~Fails(call, q)}}

\* C10: the sanitizer is idempotent: a second pass over a sanitized record
\* changes nothing.
C10_SanitizerIdempotent ==
    san.passes >= 2 => san.cur = san.prev

\* A value holds no raw byte string and no None, at any depth.
RECURSIVE NoRaw(_)
NoRaw(value) ==
    CASE value.t \in {"none", "bytes"} -> FALSE
      [] value.t \in {"list", "tuple"} ->
            \A i \in 1..Len(value.v) : NoRaw(value.v[i])
      [] value.t = "dict" -> \A i \in 1..Len(value.v) : NoRaw(value.v[i][2])
      [] OTHER -> TRUE

\* C11: in every record extract returns, no value at any depth (the entries
\* of the image's info, exif and gps mappings included) is a raw byte string
\* or None.
C11_NoRawValueAtAnyDepth ==
    (call.op = "extract" /\ out.st = "ret") => NoRaw(DictV(out.val))

\* What the sanitizer is to make of one top-level value v, as far as the
\* mapping is stated: c is what it made.
MappedAsStated(v, c) ==
    /\ v = NoneV => c = StrV(STR_NA)
    /\ v = StrV(<<>>) => c = StrV(STR_EMPTY)
    /\ v = ListV(<<>>) => c = ListV(<<>>)
    /\ v = DictV(<<>>) => c = DictV(<<>>)
    /\ v.t = "bytes" =>
          /\ c.t = "str"
          /\ c.v = Utf8Decode(v.v) \/ c.v = STR_BINARY

\* C12: for every top-level field the sanitizer maps None to "N/A", "" to
\* "Empty String", [] to [], {} to {} and a byte string to its UTF-8
\* decoding with replacement or to "Binary Data"; equal values are mapped
\* to equal results.
C12_SanitizerMapping ==
    san.passes >= 1
    => /\ Len(san.cur) = Len(san.prev)
       /\ \A i \in 1..Len(san.prev) :
             MappedAsStated(san.prev[i][2], san.cur[i][2])
       /\ \A i, j \in 1..Len(san.prev) :
             san.prev[i][2] = san.prev[j][2] => san.cur[i][2] = san.cur[j][2]

\* One pass has mapped a None, an empty string and a byte string with an
\* invalid byte.
C12_Witness ==
    /\ san.passes = 1
    /\ Len(san.prev) = 2
    /\ san.prev[1][2] = BytesV(<<255, 65>>)
    /\ san.cur[1][2] = StrV(<<65533, 65>>)
    /\ san.prev[2][2] = NoneV
    /\ san.cur[2][2] = StrV(STR_NA)

\* The last call was a single-file removal of an existing file that is not
\* of image kind.
RemoveOfOtherKind ==
    /\ SingleRemove
    /\ IsFile(pre, call.source)
    /\ _get_extension(call.source) \notin SUPPORTED_EXTENSIONS.image

\* C13 as stated: remove_metadata on an existing file whose extension is no
\* image extension raises UnsupportedMedia, whatever output and in_place
\* are, and changes no file.
C13_OtherKindRefused ==
    RemoveOfOtherKind => out = Raise("UnsupportedMedia") /\ fs = pre

\* C13, amended: the same for a file that passes validation, that is a
\* readable file, writable too when in_place is set.
C13_ValidatedOtherKindRefused ==
    (/\ RemoveOfOtherKind
     /\ pre[call.source].r
     /\ call.in_place => pre[call.source].w)
    => out = Raise("UnsupportedMedia") /\ fs = pre

\* A PDF given with both an output path and in_place was refused for its
\* kind.
C13_Witness ==
    /\ RemoveOfOtherKind
    /\ call.source = Doc
    /\ call.in_place
    /\ call.output = OutFile
    /\ out = Raise("UnsupportedMedia")

\* What the try suite of process does for the call c, from the current state.
BodyOf(c) ==
    ProcessBody(fs, file_info, clock, c.source, c.op, c.output, Kw(c), Env(c))

\* C14: when the operation fails inside process (an unknown operation and a
\* URL given to remove included), process logs the failure marker, last and
\* once, and raises that same error; it does not return.
C14_FailureMarkedAndReraised ==
    [][(/\ ncalls' = ncalls + 1
        /\ call'.op \in {"extract", "remove", "convert"}
        /\ BodyOf(call').out.st = "raise")
       => /\ out' = BodyOf(call').out
          /\ log' = <<StartMarker>> \o BodyOf(call').log \o <<FailedMarker>>
          /\ Count(log', FailedMarker) = 1]_vars

\* An unknown operation has failed: InvalidInput raised, the failure marker
\* logged after the start marker.
C14_Witness ==
    /\ call.op = "convert"
    /\ out = Raise("InvalidInput")
    /\ log = <<StartMarker, FailedMarker>>

\* The kind the table gives a lower-case three-letter word.
KindOfWord(word) ==
    CASE word = <<106, 112, 103>> -> "image"
      [] word = <<112, 100, 102>> -> "pdf"
      [] word \in {<<109, 112, 51>>, <<109, 112, 52>>} -> "audio/video"
      [] OTHER -> "unsupported"

\* C15 as stated: an extension given as text, in any letter case, with or
\* without its leading dot (the forms w and .w), is classified by the table
\* entry of its lower-case form.
C15_ExtensionTextClassified ==
    (cls.kind # "none" /\ cls.form \in {"w", ".w"})
    => cls.kind = KindOfWord(cls.word)

\* C15, amended: classification is a total function of a file name's
\* suffix (the text from the last dot, which is neither the first nor the
\* last character): in any letter case, the kind is the table entry of the
\* lower-case suffix, and unsupported when the name has no suffix.
C15_SuffixClassified ==
    cls.kind # "none"
    => /\ cls.kind \in {"image", "pdf", "audio/video", "unsupported"}
       /\ cls.form \in {"a.w", "a.b.w"} => cls.kind = KindOfWord(cls.word)
       /\ cls.form \in {"w", ".w", "aw", "a.w."} => cls.kind = "unsupported"

\* The name a.b.JPg has been classified as an image.
C15_Witness ==
    /\ cls.form = "a.b.w"
    /\ cls.word = <<106, 112, 103>>
    /\ cls.upper = {1, 2}
    /\ cls.kind = "image"

\* The local file an extraction resolves: the source, or the temporary file
\* the download of this call wrote (named after the clock it read).
ResolvedPath ==
    IF call.is_url
    THEN TempName(clock - 1,
                  IF _get_extension_from_content_type(call.net.ctype) # ""
                  THEN _get_extension_from_content_type(call.net.ctype)
                  ELSE ".tmp")
    ELSE call.source
ResolvedData == IF call.is_url THEN call.net.body ELSE pre[call.source].data

\* C16: after any sequence of extract calls on one extractor, every record
\* returned has file_type, file_path, file_size, file_created and
\* file_modified, and they describe the file this call resolved.
C16_BaseFieldsOfThisCall ==
    (call.op = "extract" /\ out.st = "ret")
    => /\ \A k \in {"file_type", "file_path", "file_size", "file_created",
                    "file_modified"} : HasKey(out.val, k)
       /\ Get(out.val, "file_type") \in {StrV(STR_IMAGE), StrV(STR_PDF), StrV(STR_AV)}
       /\ Get(out.val, "file_path") = PathStr(ResolvedPath)
       /\ Get(out.val, "file_size") = NumV(SizeOf(ResolvedData))
       /\ Get(out.val, "file_created") = StrV(ISO_EPOCH)
       /\ Get(out.val, "file_modified") = StrV(ISO_EPOCH)

\* A local extraction of n.PDF returned n.PDF's fields, after an earlier URL
\* extraction on the same extractor whose temporary file is still there.
C16_Witness ==
    /\ ncalls = 2
    /\ TempFiles(pre) # {}
    /\ call.op = "extract"
    /\ call.source = Doc
    /\ out.st = "ret"
    /\ Get(out.val, "file_path") = PathStr(Doc)
    /\ file_info.path = Doc

\* C17: when the GET of a URL extraction fails or answers a non-success
\* status, extract fails with an error of kind Network as its caller sees
\* it, and no temporary file has been created.
C17_NetworkErrorSeen ==
    (call.op = "extract" /\ call.is_url /\ call.net.get # "ok")
    => out = Raise("Network") /\ Created = {}

\* C18: when the deletion of the temporary download file fails, a warning is
\* logged and the outcome of the extraction is the one a successful deletion
\* would have given: the same record after a successful decode, the error of
\* the decode (never the error of the deletion) after a failed one.
UnlinkWarning == "warning: Could not delete temp file"
WithUnlink(c, fails) == [c EXCEPT !.net.unlink = fails]
UrlOf(c) == _extract_from_url(fs, file_info, clock, c.source, c.net)
C18_UnlinkFailureOnlyWarns ==
    [][(ncalls' = ncalls + 1 /\ call'.op = "extract" /\ call'.is_url
        /\ call'.net.get = "ok" /\ call'.net.unlink)
       => (/\ out' = BodyOf(WithUnlink(call', FALSE)).out
           /\ UrlOf(call').out = UrlOf(WithUnlink(call', FALSE)).out
           /\ Count(log', UnlinkWarning) = 1
           /\ Count(BodyOf(WithUnlink(call', FALSE)).log, UnlinkWarning) = 0)]_vars
C18_Witness ==
    /\ call.op = "extract" /\ call.is_url /\ call.net.unlink
    /\ call.net.body = PlainImg
    /\ out.st = "ret"
    /\ Get(out.val, "source_url") = PathStr(call.source)
    /\ Count(log, UnlinkWarning) = 1
    /\ TempFiles(fs) \cap Created # {}
C18_WitnessFailedDecode ==
    /\ call.op = "extract" /\ call.is_url /\ call.net.unlink
    /\ call.net.body = Junk
    /\ out = Raise("Generic")
    /\ Count(log, UnlinkWarning) = 1

\* C19: an extraction whose source is of unsupported kind (a local path with
\* an extension of no table, or a URL whose content type maps to no
\* extension) fails with UnsupportedMedia and without any I/O: no existence,
\* permission or stat check, no download, no file created or written.
UnsupportedSource ==
    /\ call.op = "extract"
    /\ IF call.is_url
       THEN call.net.get = "ok"
            /\ _get_extension_from_content_type(call.net.ctype) = ""
       ELSE _get_extension(call.source) \notin AllExtensions
C19_UnsupportedRaisedWithoutIO ==
    UnsupportedSource
    => out = Raise("UnsupportedMedia") /\ ops = <<>> /\ fs = pre
\* The same with the kind of the error left aside: the I/O alone.
C19_UnsupportedWithoutIO == UnsupportedSource => ops = <<>>

\* The files of the tree a removal cannot take: their kind is not image.
UnsupportedUnder(f, d) == {p \in Under(f, d) : ~_is_supported(p, "image")}

\* C20: remove_metadata_from_directory with recursive=True logs one skip
\* entry for each file of the tree whose kind is not supported for removal,
\* and does not raise because of them.  Skip entries are also written for
\* supported files that fail (C9), so the entries are at least as many as
\* the unsupported files.
C20_UnsupportedFilesLogged ==
    (/\ DirectoryCall
     /\ call.recursive
     /\ call.output = OutDir)
    => /\ out.st = "ret"
       /\ Count(log, "warning: Skipped")
              >= Cardinality(UnsupportedUnder(pre, call.source))
\* The part of C20 the code keeps: unsupported files never make the call
\* raise.
C20_UnsupportedFilesDoNotRaise ==
    (/\ DirectoryCall
     /\ call.recursive
     /\ call.output = OutDir
     /\ UnsupportedUnder(pre, call.source) # {})
    => out.st = "ret"

\* An in-place removal of a single file, without an output path.
InPlaceRemove ==
    /\ SingleRemove
    /\ call.in_place
    /\ call.output = None
\* The write of the stripped copy did not complete: the source could not be
\* opened or decoded, the keywords of the save clash, or the save failed.
WriteFailed ==
    \/ call.fault \in {"open", "save_partial", "save_clean"}
    \/ ~IsFile(pre, call.source)
    \/ ~pre[call.source].r
    \/ pre[call.source].data.k # "img"
    \/ pre[call.source].data.info \cap SaveKeywords # {}

\* C21: in an in-place removal the original is unlinked only after the
\* stripped copy was written completely to the sibling temporary path: when
\* the write fails, the call raises, neither the unlink of the original nor
\* the rename is executed and the original is unchanged; and whenever the
\* original is no longer at its path, the complete stripped copy exists, at
\* the source path or at the temporary path.
C21_UnlinkOnlyAfterCompleteWrite ==
    (InPlaceRemove /\ IsFile(pre, call.source))
    => /\ WriteFailed
          => /\ out.st = "raise"
             /\ Count(ops, "rename") = 0
             /\ Count(ops, "unlink")
                    = (IF call.fault = "save_clean" /\ Count(ops, "write") = 1
                       THEN 1 ELSE 0)
             /\ IsFile(fs, call.source)
             /\ fs[call.source] = pre[call.source]
       /\ (~IsFile(fs, call.source) \/ fs[call.source] # pre[call.source])
          => /\ ~WriteFailed
             /\ \E p \in {call.source, TempPath(call.source)} :
                   /\ IsFile(fs, p)
                   /\ fs[p].data = StrippedCopy(pre, call.source)
C21_Witness ==
    /\ InPlaceRemove
    /\ call.source = A
    /\ call.fault = "save_partial"
    /\ pre[A].data.k = "img"
    /\ out = Raise("MetadataRemoval")
    /\ fs[A] = pre[A]
    /\ IsFile(fs, TempPath(A))
    /\ fs[TempPath(A)].data = Partial

\* The keys of a mapping, in its order.
Keys(d) == [i \in 1..Len(d) |-> d[i][1]]

\* C22: the sanitizer is a shallow pass that keeps the record's shape: the
\* output has the input's keys in the same order, every top-level value
\* that is not None, an empty string or a byte string is returned
\* unchanged, and so a None or byte string nested in a non-empty list or
\* mapping is still in the output.
C22_ShallowPassKeepsShape ==
    san.passes >= 1
    => /\ Keys(san.cur) = Keys(san.prev)
       /\ \A i \in 1..Len(san.prev) :
             /\ (/\ san.prev[i][2].t \notin {"none", "bytes"}
                 /\ ~(san.prev[i][2].t = "str" /\ san.prev[i][2].v = <<>>))
                => san.cur[i][2] = san.prev[i][2]
             /\ (/\ san.prev[i][2].t \in {"list", "dict"}
                 /\ ~NoRaw(san.prev[i][2]))
                => ~NoRaw(san.cur[i][2])
C22_Witness ==
    /\ san.passes = 1
    /\ Len(san.prev) = 2
    /\ Keys(san.cur) = <<"a", "b">>
    /\ san.prev[1][2] = ListV(<<BytesV(<<65>>)>>)
    /\ san.cur[1][2] = ListV(<<BytesV(<<65>>)>>)
    /\ san.prev[2][2] = DictV(<< <<"k", NoneV>> >>)
    /\ san.cur[2][2] = DictV(<< <<"k", NoneV>> >>)

\* How many names of the path p are the default output directory's.
CleanDirs(p) == Cardinality({i \in 1..Len(p) : p[i] = CleanDirName})

\* C23: remove_metadata_from_directory returns normally for every finite
\* tree, recursive=True with the default output directory dir/clean_metadata
\* included: the output directory it creates is not traversed as an input
\* subdirectory, so no chain of nested output directories is created.
C23_OutputDirectoryNotTraversed ==
    (/\ DirectoryCall
     /\ call.recursive
     /\ call.output = None
     /\ call.failing = {})
    => /\ out.st = "ret"
       /\ \A p \in DOMAIN fs : CleanDirs(p) <= 1

\* C24: an in-place removal changes no file other than the source: every
\* other file that existed before the call, a sibling <stem>_temp<ext>
\* included, exists with unchanged content after it, whether the call
\* returned or raised.
C24_InPlaceTouchesOnlySource ==
    InPlaceRemove
    => \A p \in DOMAIN pre \ {call.source} :
          p \in DOMAIN fs /\ fs[p] = pre[p]

\* A single-file removal that reaches _remove_image_metadata and decodes the
\* image, with nothing injected.
DecodedForRemoval ==
    /\ SingleRemove
    /\ ~(call.in_place /\ call.output # None)
    /\ call.fault = "none"
    /\ IsFile(pre, call.source)
    /\ _is_supported(call.source, "image")
    /\ pre[call.source].r
    /\ call.in_place => pre[call.source].w
    /\ pre[call.source].data.k = "img"

\* C25: for every decoded image, whatever the keys of its info channel
\* ("exif" and "quality" included), _remove_image_metadata calls the encoder,
\* once, with the empty exif payload and quality 95: a key of the info
\* channel never makes the call fail and never overrides the payload.
C25_InfoKeysNeverBreakSave ==
    DecodedForRemoval
    => /\ Count(ops, "open_w") = 1
       /\ out.st = "ret"
          => IsFile(fs, out.val) /\ fs[out.val].data.exif = {}
\* The same for the images whose info channel holds neither keyword.
C25_SaveCalledWithoutClash ==
    (DecodedForRemoval /\ pre[call.source].data.info \cap SaveKeywords = {})
    => /\ Count(ops, "open_w") = 1
       /\ out.st = "ret"
          => IsFile(fs, out.val) /\ fs[out.val].data.exif = {}

\* C26: when remove_metadata raises, in any mode, no file exists afterwards
\* that did not exist before the call: no partial destination and no
\* <stem>_temp<ext> file is left behind.
C26_FailureLeavesNoNewFile ==
    (SingleRemove /\ out.st = "raise") => Created = {}
\* The in-place part alone, with a save that succeeded: the temporary copy
\* is not left when the replacement of the original fails.
C26_FailedReplaceLeavesNoTemp ==
    (InPlaceRemove /\ call.fault \in {"unlink", "rename"} /\ out.st = "raise")
    => Created = {}

\* C27: remove_metadata_from_directory never modifies, overwrites or
\* deletes a file of the input tree: for every output_dir, the input
\* directory itself and its subdirectories included, each source file has
\* its original content after the call.
C27_InputTreeUntouched ==
    DirectoryCall
    => \A p \in Under(pre, call.source) : IsFile(fs, p) /\ fs[p] = pre[p]
\* The same for the output roots outside the input tree.
C27_InputTreeUntouchedFromOutside ==
    (DirectoryCall /\ call.output = OutDir)
    => \A p \in Under(pre, call.source) : IsFile(fs, p) /\ fs[p] = pre[p]

\* C28: ImageProcessor.process_image never deletes a file that existed
\* before the call: its failure clean-up removes only a partial output the
\* call wrote, so when the call fails because the output path exists (the
\* in-place directory case where the output path is the input path
\* included) the existing file is still there afterwards.
C28_ExistingFileNeverDeleted ==
    (call.op \in {"process_image", "process_directory"}
     /\ Exists(pre, call.source))
    => \A p \in Files(pre) : IsFile(fs, p)
\* What is left of it for a process_directory that is given an output
\* directory: the files of the input tree are all kept.
C28_InputKeptWithOutputDirectory ==
    (call.op = "process_directory" /\ call.output = OutDir)
    => \A p \in Under(pre, call.source) : IsFile(fs, p) /\ fs[p] = pre[p]
====
